---- MODULE Spec2Model ----
(***************************************************************************)
(* Hostel Feedback System (src/main.py): the SQLite store, the service     *)
(* functions over it and the Streamlit pages that call them, as a state    *)
(* machine.  Each browser session owns a session_state; all sessions share *)
(* the one database file.                                                  *)
(***************************************************************************)
EXTENDS Integers, Sequences, FiniteSets, TLC

VARIABLES users, guest, stays_in_room, feedback, admin_logs, hostel, room,
          session_state, now, last,
          script_run,   \* per session: how far its current run of the script got
          submitted     \* per username: the feedback_data it submitted since it
                        \* was last registered (history, not program state)

tables == <<users, guest, stays_in_room, feedback, admin_logs, hostel, room>>
vars == <<users, guest, stays_in_room, feedback, admin_logs, hostel, room,
          session_state, now, last, script_run, submitted>>

----------------------------------------------------------------------------
(* Bounds of the exploration *)

MaxGuests == 2
MaxFeedback == 1
MaxStays == 1
MaxLogs == 4

\* ... of the administration runs
MaxAuditUsers == 1
MaxAuditLogs == 5

\* ... of the runs with rooms and stays
MaxInserted == 3

\* ... of the runs about sessions and the log: rows and log entries written
MaxSessionWrites == 5

\* ... of the runs with every kind of operation: rows and log entries written
MaxFrameWrites == 3

\* ... of the runs with the reports: rows and log entries written
MaxReportWrites == 5

\* ... of the runs of the Guest Management page: rows and log entries written
MaxDeskWrites == 14

\* ... of the runs with a clock
MaxTime == 2
MaxClockAccounts == 2

\* ... of the runs of the example scenario
MaxScenarioAccounts == 2
MaxScenarioFeedback == 2
MaxScenarioLogs == 5

\* the browser sessions connected to the application
Sessions == {1, 2}

----------------------------------------------------------------------------
(* Values *)

None == "<None>"
NULL == << >>

ADMIN_USERNAME == "hostel_admin"
ADMIN_PASSWORD == "Soumya@1234"

Usernames == {"alice", "bob"}
Passwords == {"pw1", "pw2"}
LoginUsernames == Usernames \cup {ADMIN_USERNAME}

\* usernames a student can choose that look like the administrator's
AdminLikeUsernames == {ADMIN_USERNAME, "admin"}
LoginPasswords == Passwords \cup {ADMIN_PASSWORD}

\* username and password typed into the student login form: any student
\* credentials, or the administrator's
StudentLoginInputs ==
  (Usernames \X Passwords) \cup {<<ADMIN_USERNAME, ADMIN_PASSWORD>>}

\* username and password typed into the admin login form: the administrator's
\* pair, or a pair with a student's username or password in it
AdminLoginInputs ==
  {ADMIN_USERNAME, "alice"} \X {ADMIN_PASSWORD, "pw1"}

\* SHA-256 hex digest: one-way and collision-free on the inputs used; the
\* digest of a text is never the text itself.
hash_password(password) == <<"sha256", password>>

ADMIN_PASSWORD_HASH == hash_password(ADMIN_PASSWORD)

\* user_data dictionaries handed to register_user
UserData ==
  { [name |-> "Alice", email |-> "a@college", reg_no |-> "R1", room_no |-> "101"] }

\* what can be typed into the registration form: a full form or one with a
\* field left empty
FormData ==
  UserData \cup
  { [name |-> "", email |-> "a@college", reg_no |-> "R1", room_no |-> "101"] }

Ratings == {"A", "B", "C", "D", "E"}
MessTypes == {"Veg", "Non-Veg", "Special", "Food-Park"}

\* feedback_data a student can build with the feedback form (selectbox and
\* radio widgets only offer the legal values; comments may stay empty)
FeedbackForms ==
  { [hostel_feedback |-> "ok", hostel_rating |-> "B", mess_feedback |-> "ok",
     mess_type |-> "Veg", mess_rating |-> "A", bathroom_feedback |-> "ok",
     bathroom_rating |-> "A", other_comments |-> ""],
    [hostel_feedback |-> "", hostel_rating |-> "E", mess_feedback |-> "",
     mess_type |-> "Food-Park", mess_rating |-> "C", bathroom_feedback |-> "",
     bathroom_rating |-> "D", other_comments |-> "more"] }

\* feedback_data a direct caller of submit_feedback can pass in addition
IllegalFeedback ==
  { [hostel_feedback |-> "ok", hostel_rating |-> "Z", mess_feedback |-> "ok",
     mess_type |-> "Veg", mess_rating |-> "A", bathroom_feedback |-> "ok",
     bathroom_rating |-> "A", other_comments |-> ""],
    [hostel_feedback |-> "ok", hostel_rating |-> "A", mess_feedback |-> "ok",
     mess_type |-> "Vegan", mess_rating |-> "A", bathroom_feedback |-> "ok",
     bathroom_rating |-> "A", other_comments |-> ""],
    [hostel_feedback |-> "ok", hostel_rating |-> "A", mess_feedback |-> "ok",
     mess_type |-> "Veg", mess_rating |-> "F", bathroom_feedback |-> "ok",
     bathroom_rating |-> "A", other_comments |-> ""],
    [hostel_feedback |-> "ok", hostel_rating |-> "A", mess_feedback |-> "ok",
     mess_type |-> "Veg", mess_rating |-> "A", bathroom_feedback |-> "ok",
     bathroom_rating |-> "", other_comments |-> ""] }

FeedbackInputs == FeedbackForms \cup IllegalFeedback

\* rooms the administrator picks in the room assignment form
RoomInputs == {1, 4}

\* dates picked in the date_input widgets
DateInputs == {1, 2}

\* what the administrator types into the Add Hostel and Add Room forms
HostelNameInputs == {"Main Hostel"}
RoomNumberInputs == {"101", "401"}

\* the guest and the room a direct caller of assign_room_to_guest and
\* checkout_guest names: ids of rows, or ids of no row
StayInputs == {<<1, 1>>, <<1, 4>>, <<9, 9>>}

\* ORDER BY h.name: the place of a hostel name among the names used
NameRank(name) ==
  CASE name = "Annexe Hostel" -> 1
    [] name = "Main Hostel" -> 2
    [] name = "New Block" -> 3
    [] OTHER -> 4

----------------------------------------------------------------------------
(* The store *)

\* PRAGMA foreign_keys of a connection opened by get_db_connection: the
\* function never issues the pragma, so SQLite keeps its default, off, and
\* the FOREIGN KEY ... ON DELETE CASCADE clauses of the schema are not acted on.
foreign_keys == FALSE

\* outcome of sqlite3.connect inside get_db_connection
ConnOutcomes == {"ok", "fail"}

\* INTEGER PRIMARY KEY without AUTOINCREMENT: the new rowid is one more than
\* the largest rowid in the table, 1 for an empty table (ids of deleted rows
\* are handed out again).
RECURSIVE MaxOf(_)
MaxOf(S) ==
  IF S = {} THEN 0
  ELSE LET x == CHOOSE y \in S : TRUE
           m == MaxOf(S \ {x})
       IN IF x > m THEN x ELSE m

NextRowId(ids) == MaxOf(ids) + 1

feedback_check_no_mess_type(row) ==
  /\ row.hostel_rating \in Ratings
  /\ row.mess_rating \in Ratings
  /\ row.bathroom_rating \in Ratings

\* CHECK constraints of the feedback table
feedback_check(row) ==
  /\ row.hostel_rating \in Ratings
  /\ row.mess_type \in MessTypes
  /\ row.mess_rating \in Ratings
  /\ row.bathroom_rating \in Ratings

\* the tables after initialize_database has run on a fresh file
InitHostel ==
  { [hostel_id |-> 1, name |-> "Main Hostel", location |-> "Campus North"],
    [hostel_id |-> 2, name |-> "Annexe Hostel", location |-> "Campus South"],
    [hostel_id |-> 3, name |-> "New Block", location |-> "Campus East"] }

InitRoom ==
  { [room_id |-> 1, room_number |-> "101", type |-> "Single", hostel_id |-> 1],
    [room_id |-> 2, room_number |-> "102", type |-> "Double", hostel_id |-> 1],
    [room_id |-> 3, room_number |-> "103", type |-> "Triple", hostel_id |-> 1],
    [room_id |-> 4, room_number |-> "201", type |-> "Single", hostel_id |-> 2],
    [room_id |-> 5, room_number |-> "202", type |-> "Double", hostel_id |-> 2],
    [room_id |-> 6, room_number |-> "301", type |-> "Single", hostel_id |-> 3] }

\* st.session_state after init_session_state
InitSession == [logged_in |-> FALSE, current_user |-> None, is_admin |-> FALSE]

NoArg == [none |-> TRUE]

\* no run of the script is under way for the session
Idle == << >>

NoCall == [op |-> "start", ret |-> << >>, out |-> "", rows |-> {}, chart |-> {}]

Init ==
  /\ users = {}
  /\ guest = {}
  /\ stays_in_room = {}
  /\ feedback = {}
  /\ admin_logs = << >>
  /\ hostel = InitHostel
  /\ room = InitRoom
  /\ session_state = [s \in Sessions |-> InitSession]
  /\ now = 0
  /\ last = NoCall
  /\ script_run = [s \in Sessions |-> Idle]
  /\ submitted = [u \in Usernames |-> << >>]

----------------------------------------------------------------------------
(* get_db_connection *)

\* What a caller sees when a statement in the body of
\* "with get_db_connection() as connection" raises sqlite3.Error: the error is
\* thrown into the generator at its yield, the generator's except clause
\* catches it and yields a second time, and contextlib turns that into
\* RuntimeError("generator didn't stop after throw()").  The connection is
\* closed without a commit, so the statements of the body are rolled back.
BodyError == <<"raise", "RuntimeError">>

\* SELECT username FROM users WHERE username = ? finds a row
HasUser(username) == \E r \in users : r.username = username

----------------------------------------------------------------------------
(* Service functions.  Each yields its return value and the tables it leaves. *)

log_entry(logs, action, details) ==
  [id |-> NextRowId({logs[i].id : i \in 1..Len(logs)}),
   timestamp |-> now, action |-> action, details |-> details]

log_admin_action_replacing(logs, action, details) ==
  IF logs = << >> THEN <<log_entry(logs, action, details)>>
  ELSE [logs EXCEPT ![Len(logs)] = log_entry(logs, action, details)]

log_admin_action(logs, action, details) ==
  Append(logs, log_entry(logs, action, details))

authenticate_admin_by_row(username, password) ==
  \/ username = ADMIN_USERNAME /\ hash_password(password) = ADMIN_PASSWORD_HASH
  \/ \E r \in users : /\ r.username = username
                       /\ r.username = ADMIN_USERNAME
                       /\ r.password = hash_password(password)

authenticate_admin(username, password) ==
  username = ADMIN_USERNAME /\ hash_password(password) = ADMIN_PASSWORD_HASH

authenticate_user_match_any_password(username, password) ==
  \E r \in users : r.username = username

authenticate_user_match(username, password) ==
  \E r \in users : r.username = username /\ r.password = hash_password(password)

authenticate_user_touching(username, password, conn) ==
  IF conn = "ok" /\ authenticate_user_match(username, password)
  THEN [ret |-> <<"True">>,
        users |-> { IF r.username = username
                    THEN [r EXCEPT !.last_login = <<now>>] ELSE r : r \in users }]
  ELSE [ret |-> <<"False">>,
        users |-> { IF r.username = username /\ conn = "ok"
                    THEN [r EXCEPT !.last_login = <<now>>] ELSE r : r \in users }]

authenticate_user_stamping_all(username, password, conn) ==
  IF conn = "ok" /\ authenticate_user_match(username, password)
  THEN [ret |-> <<"True">>,
        users |-> { [r EXCEPT !.last_login = <<now>>] : r \in users }]
  ELSE [ret |-> <<"False">>, users |-> users]

authenticate_user(username, password, conn) ==
  IF conn = "ok" /\ authenticate_user_match(username, password)
  THEN [ret |-> <<"True">>,
        users |-> { IF r.username = username
                    THEN [r EXCEPT !.last_login = <<now>>] ELSE r : r \in users }]
  ELSE [ret |-> <<"False">>, users |-> users]

register_user_insert_clearing_logins(username, password, user_data) ==
  LET user_id == NextRowId({r.id : r \in users})
      user_row == [id |-> user_id, username |-> username,
                   password |-> hash_password(password),
                   name |-> user_data.name, email |-> user_data.email,
                   reg_no |-> user_data.reg_no, room_no |-> user_data.room_no,
                   last_login |-> NULL]
      guest_row == [guest_id |-> NextRowId({g.guest_id : g \in guest}),
                    name |-> user_data.name, email |-> user_data.email,
                    user_id |-> user_id]
  IN IF HasUser(username)
     THEN [ret |-> BodyError, users |-> users, guest |-> guest]
     ELSE [ret |-> <<"True", "Registration successful">>,
           users |-> { [r EXCEPT !.last_login = NULL] : r \in users }
                       \cup {user_row},
           guest |-> guest \cup {guest_row}]

\* the two INSERT statements and the commit of register_user
register_user_insert(username, password, user_data) ==
  LET user_id == NextRowId({r.id : r \in users})
      user_row == [id |-> user_id, username |-> username,
                   password |-> hash_password(password),
                   name |-> user_data.name, email |-> user_data.email,
                   reg_no |-> user_data.reg_no, room_no |-> user_data.room_no,
                   last_login |-> NULL]
      guest_row == [guest_id |-> NextRowId({g.guest_id : g \in guest}),
                    name |-> user_data.name, email |-> user_data.email,
                    user_id |-> user_id]
  IN IF HasUser(username)   \* UNIQUE(username)
     THEN [ret |-> BodyError, users |-> users, guest |-> guest]
     ELSE [ret |-> <<"True", "Registration successful">>,
           users |-> users \cup {user_row}, guest |-> guest \cup {guest_row}]

register_user_unchecked(username, password, user_data, conn) ==
  IF conn # "ok"
  THEN [ret |-> <<"None">>, users |-> users, guest |-> guest]
  ELSE register_user_insert(username, password, user_data)

register_user(username, password, user_data, conn) ==
  IF conn # "ok"
  THEN [ret |-> <<"None">>, users |-> users, guest |-> guest]
  ELSE IF HasUser(username)
  THEN [ret |-> <<"False", "Username already exists">>,
        users |-> users, guest |-> guest]
  ELSE register_user_insert(username, password, user_data)

delete_user(username, conn) ==
  LET gone == { r \in users : r.username = username }
      goneIds == { r.id : r \in gone }
      goneGuests == { g \in guest : g.user_id \in goneIds }
      goneGuestIds == { g.guest_id : g \in goneGuests }
  IN IF conn # "ok"
     THEN [ret |-> <<"False">>, users |-> users, guest |-> guest,
           stays_in_room |-> stays_in_room, feedback |-> feedback]
     ELSE IF foreign_keys
     THEN [ret |-> <<"True">>, users |-> users \ gone,
           guest |-> guest \ goneGuests,
           stays_in_room |-> { st \in stays_in_room : st.guest_id \notin goneGuestIds },
           feedback |-> { f \in feedback : f.username # username }]
     ELSE [ret |-> <<"True">>, users |-> users \ gone, guest |-> guest,
           stays_in_room |-> stays_in_room, feedback |-> feedback]

submit_feedback(username, feedback_data, conn) ==
  LET row == [id |-> NextRowId({f.id : f \in feedback}),
              username |-> username, timestamp |-> now,
              hostel_feedback |-> feedback_data.hostel_feedback,
              hostel_rating |-> feedback_data.hostel_rating,
              mess_feedback |-> feedback_data.mess_feedback,
              mess_type |-> feedback_data.mess_type,
              mess_rating |-> feedback_data.mess_rating,
              bathroom_feedback |-> feedback_data.bathroom_feedback,
              bathroom_rating |-> feedback_data.bathroom_rating,
              other_comments |-> feedback_data.other_comments]
  IN IF conn # "ok"
     THEN [ret |-> <<"False">>, feedback |-> feedback]
     ELSE IF \/ username = None               \* username TEXT NOT NULL
             \/ ~feedback_check(row)
             \/ foreign_keys /\ ~HasUser(username)
     THEN [ret |-> BodyError, feedback |-> feedback]
     ELSE [ret |-> <<"True">>, feedback |-> feedback \cup {row}]

\* the categories get_rating_statistics is called for
RatingTypes == {"hostel", "mess", "bathroom"}

rating_of(row, rating_type) ==
  CASE rating_type = "hostel" -> row.hostel_rating
    [] rating_type = "mess" -> row.mess_rating
    [] OTHER -> row.bathroom_rating

get_rating_statistics_distinct_users(rating_type, conn) ==
  IF conn # "ok" THEN {}
  ELSE { [rating |-> g,
          count |-> Cardinality({ f.username : f \in
                       { x \in feedback : rating_of(x, rating_type) = g } })] :
         g \in { rating_of(f, rating_type) : f \in feedback } }

\* SELECT <type>_rating as rating, COUNT(*) as count FROM feedback GROUP BY
\* <type>_rating: one line per rating value some row holds
get_rating_statistics(rating_type, conn) ==
  IF conn # "ok" THEN {}
  ELSE { [rating |-> g,
          count |-> Cardinality({ f \in feedback : rating_of(f, rating_type) = g })] :
         g \in { rating_of(f, rating_type) : f \in feedback } }

\* SELECT username, timestamp, hostel_feedback, hostel_rating, other_comments
\* FROM feedback WHERE hostel_feedback IS NOT NULL AND hostel_feedback != '':
\* one line per row kept (id tells the lines of the data frame apart)
get_hostel_feedback(conn) ==
  IF conn # "ok" THEN {}
  ELSE { [id |-> f.id, username |-> f.username, timestamp |-> f.timestamp,
          hostel_feedback |-> f.hostel_feedback,
          hostel_rating |-> f.hostel_rating,
          other_comments |-> f.other_comments] :
         f \in { x \in feedback : x.hostel_feedback # "" } }

\* SELECT * FROM feedback ORDER BY timestamp DESC, as the rows of the data
\* frame (their order is left out)
get_all_feedback(conn) == IF conn = "ok" THEN feedback ELSE {}

clear_admin_logs_keeping_logins(conn) ==
  IF conn = "ok"
  THEN [ret |-> <<"True">>,
        admin_logs |-> SelectSeq(admin_logs, LAMBDA e : e.action = "ADMIN_LOGIN")]
  ELSE [ret |-> <<"False">>, admin_logs |-> admin_logs]

clear_admin_logs(conn) ==
  IF conn = "ok" THEN [ret |-> <<"True">>, admin_logs |-> << >>]
  ELSE [ret |-> <<"False">>, admin_logs |-> admin_logs]

assign_room_to_guest(guest_id, room_id, check_in_date, conn) ==
  LET row == [stay_id |-> NextRowId({st.stay_id : st \in stays_in_room}),
              guest_id |-> guest_id, room_id |-> room_id,
              check_in_date |-> <<check_in_date>>, check_out_date |-> NULL]
  IN IF conn # "ok"
     THEN [ret |-> <<"False">>, stays_in_room |-> stays_in_room]
     ELSE IF foreign_keys /\ ~( /\ \E g \in guest : g.guest_id = guest_id
                                /\ \E r \in room : r.room_id = room_id )
     THEN [ret |-> BodyError, stays_in_room |-> stays_in_room]
     ELSE [ret |-> <<"True">>, stays_in_room |-> stays_in_room \cup {row}]

checkout_guest_any_stay(guest_id, room_id, check_out_date, conn) ==
  IF conn # "ok"
  THEN [ret |-> <<"False">>, stays_in_room |-> stays_in_room]
  ELSE [ret |-> <<"True">>,
        stays_in_room |->
          { IF st.guest_id = guest_id /\ st.room_id = room_id
            THEN [st EXCEPT !.check_out_date = <<check_out_date>>]
            ELSE st : st \in stays_in_room }]

\* UPDATE stays_in_room SET check_out_date = ? WHERE guest_id = ? AND
\* room_id = ? AND check_out_date IS NULL; True also when no row matched
checkout_guest(guest_id, room_id, check_out_date, conn) ==
  IF conn # "ok"
  THEN [ret |-> <<"False">>, stays_in_room |-> stays_in_room]
  ELSE [ret |-> <<"True">>,
        stays_in_room |->
          { IF /\ st.guest_id = guest_id
               /\ st.room_id = room_id
               /\ st.check_out_date = NULL
            THEN [st EXCEPT !.check_out_date = <<check_out_date>>]
            ELSE st : st \in stays_in_room }]

add_hostel(name, location, conn) ==
  IF conn # "ok"
  THEN [ret |-> <<"False">>, hostel |-> hostel]
  ELSE [ret |-> <<"True">>,
        hostel |-> hostel \cup
          { [hostel_id |-> NextRowId({h.hostel_id : h \in hostel}),
             name |-> name, location |-> location] }]

add_room(room_number, room_type, hostel_id, conn) ==
  IF conn # "ok"
  THEN [ret |-> <<"False">>, room |-> room]
  ELSE IF foreign_keys /\ ~\E h \in hostel : h.hostel_id = hostel_id
  THEN [ret |-> BodyError, room |-> room]
  ELSE [ret |-> <<"True">>,
        room |-> room \cup
          { [room_id |-> NextRowId({r.room_id : r \in room}),
             room_number |-> room_number, type |-> room_type,
             hostel_id |-> hostel_id] }]

----------------------------------------------------------------------------
(* main(): the pages the sidebar menu offers a session *)

AdminPages == {"Dashboard", "Hostel Management", "Room Management",
               "Guest Management", "Hostel Feedback", "Mess Feedback",
               "Bathroom Feedback", "All Feedback", "User Management",
               "System Logs"}

Pages(s) ==
  IF session_state[s].is_admin THEN AdminPages
  ELSE IF session_state[s].logged_in THEN {"Home", "Submit Feedback", "FAQ"}
  ELSE {"Home", "Register", "Login", "FAQ"}

\* what main() shows when the page function raises (except Exception)
PageCrashed == "An error occurred"

\* the call a step made: the function, what it returned (or raised), the
\* message the page showed for it, and the rows of the listing and the lines
\* of the rating chart it showed
Call(op, s, user, arg, ret, out) ==
  [op |-> op, ret |-> ret, out |-> out, rows |-> {}, chart |-> {}]

\* the step stays within the explored bounds
InBounds ==
  /\ Cardinality(guest') <= MaxGuests
  /\ Cardinality(feedback') <= MaxFeedback
  /\ Cardinality(stays_in_room') <= MaxStays
  /\ Len(admin_logs') <= MaxLogs

----------------------------------------------------------------------------
(* Page functions.  conn is the outcome of every sqlite3.connect the run makes. *)

\* register_page: the form checks, then register_user
register_page(s, username, password, confirm_pass, form, conn) ==
  /\ IF form.name = "" \/ form.email = "" \/ form.reg_no = "" \/ form.room_no = ""
     THEN /\ last' = Call("register_page", s, username, NoArg, << >>,
                          "Please fill in all fields!")
          /\ UNCHANGED <<users, guest>>
     ELSE IF password # confirm_pass
     THEN /\ last' = Call("register_page", s, username, NoArg, << >>,
                          "Passwords don't match!")
          /\ UNCHANGED <<users, guest>>
     ELSE LET r == register_user(username, password, form, conn)
          IN /\ users' = r.users
             /\ guest' = r.guest
             /\ last' = Call("register_user", s, username, [password |-> password], r.ret,
                             IF Len(r.ret) = 2
                             THEN (IF r.ret[1] = "True"
                                   THEN r.ret[2] \o " Please login." ELSE r.ret[2])
                             ELSE PageCrashed)
  /\ UNCHANGED <<stays_in_room, feedback, admin_logs, hostel, room,
                 session_state, now>>

\* register_page with a complete form, up to the SELECT of register_user.  The
\* SELECT runs outside a transaction (sqlite3 opens one only before the first
\* INSERT), so other sessions' statements can come between it and the INSERTs.
register_page_select(s, username, password, conn) ==
  /\ script_run[s] = Idle
  /\ conn = "ok"
  /\ IF HasUser(username)
     THEN /\ last' = Call("register_user", s, username, NoArg,
                          <<"False", "Username already exists">>,
                          "Username already exists")
          /\ UNCHANGED script_run
     ELSE /\ last' = Call("register_page", s, username, NoArg, << >>, "")
          /\ script_run' = [script_run EXCEPT
                              ![s] = <<"register_user", username, password>>]
  /\ UNCHANGED <<tables, session_state, now>>

\* ... and the rest of that run: the two INSERT statements, the commit, and
\* what register_page shows for the outcome
register_page_insert(s, form, conn) ==
  /\ Len(script_run[s]) = 3
  /\ script_run[s][1] = "register_user"
  /\ LET r == register_user_insert(script_run[s][2], script_run[s][3], form)
     IN /\ users' = r.users
        /\ guest' = r.guest
        /\ last' = Call("register_user", s, script_run[s][2], NoArg, r.ret,
                        IF r.ret[1] = "True" THEN r.ret[2] \o " Please login."
                        ELSE PageCrashed)
  /\ script_run' = [script_run EXCEPT ![s] = Idle]
  /\ UNCHANGED <<stays_in_room, feedback, admin_logs, hostel, room,
                 session_state, now>>

student_login_locking(s, username, password, conn) ==
  LET r == authenticate_user(username, password, conn)
  IN /\ users' =
          IF r.ret = <<"True">> THEN r.users
          ELSE { IF x.username = username
                 THEN [x EXCEPT !.password = <<"locked">>] ELSE x : x \in users }
     /\ session_state' =
          IF r.ret = <<"True">>
          THEN [session_state EXCEPT ![s].logged_in = TRUE,
                                     ![s].current_user = username]
          ELSE session_state
     /\ last' = Call("authenticate_user", s, username, [password |-> password], r.ret,
                     IF r.ret = <<"True">> THEN "Login successful!"
                     ELSE "Invalid credentials")
     /\ UNCHANGED <<guest, stays_in_room, feedback, admin_logs, hostel, room, now>>

\* render_login_page, student tab
student_login(s, username, password, conn) ==
  LET r == authenticate_user(username, password, conn)
  IN /\ users' = r.users
     /\ session_state' =
          IF r.ret = <<"True">>
          THEN [session_state EXCEPT ![s].logged_in = TRUE,
                                     ![s].current_user = username]
          ELSE session_state
     /\ last' = Call("authenticate_user", s, username, [password |-> password], r.ret,
                     IF r.ret = <<"True">> THEN "Login successful!"
                     ELSE "Invalid credentials")
     /\ UNCHANGED <<guest, stays_in_room, feedback, admin_logs, hostel, room, now>>

admin_login_logging_attempts(s, username, password, conn) ==
  LET ok == authenticate_admin(username, password)
  IN /\ session_state' =
          IF ok
          THEN [session_state EXCEPT ![s] = [logged_in |-> TRUE,
                                             current_user |-> "admin",
                                             is_admin |-> TRUE]]
          ELSE session_state
     /\ admin_logs' = IF conn = "ok"
                      THEN log_admin_action(admin_logs, "ADMIN_LOGIN", "")
                      ELSE admin_logs
     /\ last' = Call("authenticate_admin", s, username, [password |-> password],
                     IF ok THEN <<"True">> ELSE <<"False">>,
                     IF ok THEN "Admin access granted!"
                     ELSE "Invalid admin credentials")
     /\ UNCHANGED <<users, guest, stays_in_room, feedback, hostel, room, now>>

\* render_login_page, admin tab
admin_login(s, username, password, conn) ==
  LET ok == authenticate_admin(username, password)
  IN /\ session_state' =
          IF ok
          THEN [session_state EXCEPT ![s] = [logged_in |-> TRUE,
                                             current_user |-> "admin",
                                             is_admin |-> TRUE]]
          ELSE session_state
     /\ admin_logs' = IF ok /\ conn = "ok"
                      THEN log_admin_action(admin_logs, "ADMIN_LOGIN", "")
                      ELSE admin_logs
     /\ last' = Call("authenticate_admin", s, username, [password |-> password],
                     IF ok THEN <<"True">> ELSE <<"False">>,
                     IF ok THEN "Admin access granted!"
                     ELSE "Invalid admin credentials")
     /\ UNCHANGED <<users, guest, stays_in_room, feedback, hostel, room, now>>

user_logout_keeping_user(s) ==
  /\ session_state' = [session_state EXCEPT ![s].logged_in = FALSE]
  /\ last' = Call("user_logout", s, session_state[s].current_user, NoArg, << >>,
                  "Logged out successfully!")
  /\ UNCHANGED <<tables, now>>

\* show_user_sidebar, Logout button
user_logout(s) ==
  /\ session_state' = [session_state EXCEPT ![s] = InitSession]
  /\ last' = Call("user_logout", s, session_state[s].current_user, NoArg, << >>,
                  "Logged out successfully!")
  /\ UNCHANGED <<tables, now>>

\* show_admin_sidebar, Logout Admin button
admin_logout(s, conn) ==
  /\ session_state' = [session_state EXCEPT ![s] = InitSession]
  /\ admin_logs' = IF conn = "ok"
                   THEN log_admin_action(admin_logs, "ADMIN_LOGOUT", "")
                   ELSE admin_logs
  /\ last' = Call("admin_logout", s, session_state[s].current_user, NoArg, << >>,
                  "Admin logged out successfully!")
  /\ UNCHANGED <<users, guest, stays_in_room, feedback, hostel, room, now>>

feedback_page_shared_identity(s, feedback_data, conn) ==
  IF ~\E x \in Sessions : session_state[x].logged_in
  THEN /\ last' = Call("feedback_page", s, session_state[s].current_user,
                       NoArg, << >>, "Please login first")
       /\ UNCHANGED <<tables, session_state, now>>
  ELSE LET g == CHOOSE x \in Sessions : session_state[x].logged_in
           r == submit_feedback(session_state[g].current_user, feedback_data, conn)
       IN /\ feedback' = r.feedback
          /\ last' = Call("submit_feedback", s, session_state[g].current_user,
                          feedback_data, r.ret,
                          IF r.ret = <<"True">> THEN "Thank you for your feedback!"
                          ELSE IF r.ret = <<"False">>
                          THEN "Failed to submit feedback. Please try again."
                          ELSE PageCrashed)
          /\ UNCHANGED <<users, guest, stays_in_room, admin_logs, hostel, room,
                         session_state, now>>

\* feedback_page with the form submitted
feedback_page(s, feedback_data, conn) ==
  IF ~session_state[s].logged_in
  THEN /\ last' = Call("feedback_page", s, session_state[s].current_user,
                       NoArg, << >>, "Please login first")
       /\ UNCHANGED <<tables, session_state, now>>
  ELSE LET r == submit_feedback(session_state[s].current_user, feedback_data, conn)
       IN /\ feedback' = r.feedback
          /\ last' = Call("submit_feedback", s, session_state[s].current_user,
                          feedback_data, r.ret,
                          IF r.ret = <<"True">> THEN "Thank you for your feedback!"
                          ELSE IF r.ret = <<"False">>
                          THEN "Failed to submit feedback. Please try again."
                          ELSE PageCrashed)
          /\ UNCHANGED <<users, guest, stays_in_room, admin_logs, hostel, room,
                         session_state, now>>

Unauthorized(page, s) ==
  /\ last' = Call(page, s, session_state[s].current_user, NoArg, << >>,
                  "Unauthorized access")
  /\ UNCHANGED <<tables, session_state, now>>

\* user_manager past its gate; click is "view" (the page is rendered) or "delete" (the
\* Delete User button is pressed with delete_username selected).  A successful
\* deletion ends in st.rerun(), which renders the page once more.
user_manager_page(s, click, delete_username, conn) ==
       LET viewed == IF conn = "ok"
                     THEN log_admin_action(admin_logs, "VIEWED_USER_MANAGEMENT", "")
                     ELSE admin_logs
       IN IF users = {} \/ conn # "ok"
          THEN /\ admin_logs' = viewed
               /\ last' = Call("user_manager", s, None, NoArg, << >>,
                               "No users registered yet")
               /\ UNCHANGED <<users, guest, stays_in_room, feedback, hostel, room,
                              session_state, now>>
          ELSE IF click = "view"
          THEN /\ admin_logs' = viewed
               /\ last' = Call("user_manager", s, None, NoArg, << >>, "User Directory")
               /\ UNCHANGED <<users, guest, stays_in_room, feedback, hostel, room,
                              session_state, now>>
          ELSE LET r == delete_user(delete_username, conn)
                   deleted == log_admin_action(viewed, "USER_DELETION",
                                               "Deleted user: " \o delete_username)
               IN /\ HasUser(delete_username)
                  /\ users' = r.users
                  /\ guest' = r.guest
                  /\ stays_in_room' = r.stays_in_room
                  /\ feedback' = r.feedback
                  /\ admin_logs' =
                       IF r.ret = <<"True">>
                       THEN log_admin_action(deleted, "VIEWED_USER_MANAGEMENT", "")
                       ELSE viewed
                  /\ last' = Call("delete_user", s, delete_username, NoArg, r.ret,
                                  IF r.ret = <<"True">>
                                  THEN "User " \o delete_username \o " removed"
                                  ELSE "Failed to delete user")
                  /\ UNCHANGED <<hostel, room, session_state, now>>

\* user_manager, the run started by a press of Delete User, up to the selectbox:
\* the gate, the VIEWED_USER_MANAGEMENT entry, get_all_users() and the
\* selectbox, whose options are the usernames that query returned.  Every
\* call of the run opens a connection and a transaction of its own, so other
\* sessions' calls can come between two of them.
user_manager_select(s, delete_username, conn) ==
  /\ session_state[s].is_admin
  /\ script_run[s] = Idle
  /\ conn = "ok"
  /\ HasUser(delete_username)
  /\ admin_logs' = log_admin_action(admin_logs, "VIEWED_USER_MANAGEMENT", "")
  /\ script_run' = [script_run EXCEPT ![s] = <<"user_manager", delete_username>>]
  /\ last' = Call("user_manager", s, None, NoArg, << >>, "User Directory")
  /\ UNCHANGED <<users, guest, stays_in_room, feedback, hostel, room,
                 session_state, now, submitted>>

\* ... and the rest of that run: delete_user for the selected username, the
\* USER_DELETION entry and st.rerun(), which renders the page once more
user_manager_delete(s, conn) ==
  /\ Len(script_run[s]) = 2
  /\ script_run[s][1] = "user_manager"
  /\ LET delete_username == script_run[s][2]
         r == delete_user(delete_username, conn)
         deleted == log_admin_action(admin_logs, "USER_DELETION",
                                     "Deleted user: " \o delete_username)
     IN /\ users' = r.users
        /\ guest' = r.guest
        /\ stays_in_room' = r.stays_in_room
        /\ feedback' = r.feedback
        /\ admin_logs' =
             IF r.ret = <<"True">>
             THEN log_admin_action(deleted, "VIEWED_USER_MANAGEMENT", "")
             ELSE admin_logs
        /\ last' = Call("delete_user", s, delete_username, NoArg, r.ret,
                        IF r.ret = <<"True">>
                        THEN "User " \o delete_username \o " removed"
                        ELSE "Failed to delete user")
  /\ script_run' = [script_run EXCEPT ![s] = Idle]
  /\ UNCHANGED <<hostel, room, session_state, now, submitted>>

user_manager_ungated(s, click, delete_username, conn) ==
  user_manager_page(s, click, delete_username, conn)

user_manager(s, click, delete_username, conn) ==
  IF ~session_state[s].is_admin THEN Unauthorized("user_manager", s)
  ELSE user_manager_page(s, click, delete_username, conn)

\* system_logs; click is "view" or "clear" (the Clear All Logs button)
system_logs(s, click, conn) ==
  IF ~session_state[s].is_admin THEN Unauthorized("system_logs", s)
  ELSE IF admin_logs = << >> \/ conn # "ok"
  THEN /\ last' = Call("system_logs", s, None, NoArg, << >>, "No system logs yet")
       /\ UNCHANGED <<tables, session_state, now>>
  ELSE IF click = "view"
  THEN /\ last' = Call("system_logs", s, None, NoArg, << >>, "Detailed Logs")
       /\ UNCHANGED <<tables, session_state, now>>
  ELSE LET r == clear_admin_logs(conn)
       IN /\ admin_logs' =
               IF r.ret = <<"True">>
               THEN log_admin_action(r.admin_logs, "LOGS_CLEARED",
                                     "All system logs cleared")
               ELSE r.admin_logs
          /\ last' = Call("clear_admin_logs", s, None, NoArg, r.ret,
                          IF r.ret = <<"True">> THEN "Logs cleared successfully"
                          ELSE "Failed to clear logs")
          /\ UNCHANGED <<users, guest, stays_in_room, feedback, hostel, room,
                         session_state, now>>

\* system_logs, the run started by a press of Clear All Logs, up to the return
\* of clear_admin_logs: the gate, get_admin_logs() (the page stops there when it
\* finds no entry) and the DELETE
system_logs_clear(s, conn) ==
  /\ session_state[s].is_admin
  /\ script_run[s] = Idle
  /\ admin_logs # << >>
  /\ LET r == clear_admin_logs(conn)
     IN /\ admin_logs' = r.admin_logs
        /\ script_run' = [script_run EXCEPT ![s] =
                            IF r.ret = <<"True">> THEN <<"system_logs", "cleared">>
                            ELSE Idle]
        /\ last' = Call("clear_admin_logs", s, None, NoArg, r.ret,
                        IF r.ret = <<"True">> THEN "" ELSE "Failed to clear logs")
  /\ UNCHANGED <<users, guest, stays_in_room, feedback, hostel, room,
                 session_state, now, submitted>>

\* ... and the rest of that run: the LOGS_CLEARED entry, the message and
\* st.rerun() (system_logs writes no entry when it renders)
system_logs_cleared(s, conn) ==
  /\ script_run[s] = <<"system_logs", "cleared">>
  /\ admin_logs' = IF conn = "ok"
                   THEN log_admin_action(admin_logs, "LOGS_CLEARED",
                                         "All system logs cleared")
                   ELSE admin_logs
  /\ script_run' = [script_run EXCEPT ![s] = Idle]
  /\ last' = Call("system_logs", s, None, NoArg, << >>, "Logs cleared successfully")
  /\ UNCHANGED <<users, guest, stays_in_room, feedback, hostel, room,
                 session_state, now, submitted>>

available_guests_without_open_stay ==
  { g \in guest : ~\E st \in stays_in_room :
                      st.guest_id = g.guest_id /\ st.check_out_date = NULL }

\* get_all_guests keeps one line per guest and stay; the assignment form
\* offers the guests of the lines whose room_number is NULL: a guest without
\* a stay, or with a stay in a room that is not in the room table
available_guests ==
  { g \in guest :
      \/ ~\E st \in stays_in_room : st.guest_id = g.guest_id
      \/ \E st \in stays_in_room :
            /\ st.guest_id = g.guest_id
            /\ ~\E r \in room : r.room_id = st.room_id }

\* guest_management with the Assign Room form submitted.  guest_options is a
\* dict keyed by guest name: of several available guests with one name it
\* keeps one, whichever the unordered ties of ORDER BY g.name put last.
guest_management_assign(s, selected_guest, guest_id, room_id, conn) ==
  IF ~session_state[s].is_admin THEN Unauthorized("guest_management", s)
  ELSE LET viewed == log_admin_action(admin_logs, "VIEWED_GUEST_MANAGEMENT", "")
           r == assign_room_to_guest(guest_id, room_id, now, conn)
           assigned == log_admin_action(viewed, "ROOM_ASSIGNED",
                                        "Assigned room to guest: " \o selected_guest)
       IN /\ conn = "ok"
          /\ \E g \in available_guests :
                g.name = selected_guest /\ g.guest_id = guest_id
          /\ \E rm \in room : rm.room_id = room_id
          /\ stays_in_room' = r.stays_in_room
          /\ admin_logs' =
               IF r.ret = <<"True">>
               THEN log_admin_action(assigned, "VIEWED_GUEST_MANAGEMENT", "")
               ELSE viewed
          /\ last' = Call("assign_room_to_guest", s, selected_guest,
                          [guest_id |-> guest_id, room_id |-> room_id], r.ret,
                          IF r.ret = <<"True">>
                          THEN "Room assigned to " \o selected_guest \o "!"
                          ELSE "Failed to assign room")
          /\ UNCHANGED <<users, guest, feedback, hostel, room,
                         session_state, now>>

\* get_all_rooms(): room JOIN hostel ORDER BY h.name, r.room_number
get_all_rooms(conn) ==
  IF conn # "ok" THEN {}
  ELSE { [room_id |-> r.room_id, room_number |-> r.room_number, type |-> r.type,
          hostel_name |-> h.name, location |-> h.location] :
         <<r, h>> \in { p \in room \X hostel : p[1].hostel_id = p[2].hostel_id } }

\* rooms_data[rooms_data['room_number'] == room_number]['room_id'].iloc[0]: the
\* rows of that number that no other such row precedes in the order of
\* get_all_rooms (rows of equal hostel name come in either order)
first_room_id(room_number, conn) ==
  LET same == { r \in get_all_rooms(conn) : r.room_number = room_number }
  IN { r.room_id : r \in { x \in same :
          \A y \in same : NameRank(x.hostel_name) <= NameRank(y.hostel_name) } }

\* the lines of get_all_guests() the checkout form offers: a guest with a stay
\* whose check_out_date is NULL in a room that exists
current_stays ==
  { <<g, st, r>> \in guest \X stays_in_room \X room :
       /\ st.guest_id = g.guest_id
       /\ st.room_id = r.room_id
       /\ st.check_out_date = NULL }

\* guest_management with the Checkout form submitted for the line of guest
\* guest_id in a room numbered room_number; room_id is what the page's lookup
\* by room number yields
guest_management_checkout(s, guest_id, room_number, room_id, check_out_date, conn) ==
  IF ~session_state[s].is_admin THEN Unauthorized("guest_management", s)
  ELSE LET viewed == log_admin_action(admin_logs, "VIEWED_GUEST_MANAGEMENT", "")
           line == CHOOSE c \in current_stays :
                     c[1].guest_id = guest_id /\ c[3].room_number = room_number
           selected_checkout == line[1].name \o " (Room " \o room_number \o ")"
           r == checkout_guest(guest_id, room_id, check_out_date, conn)
           checked_out == log_admin_action(viewed, "GUEST_CHECKOUT",
                                           "Guest checked out: " \o selected_checkout)
       IN /\ conn = "ok"
          /\ \E c \in current_stays :
                c[1].guest_id = guest_id /\ c[3].room_number = room_number
          /\ IF first_room_id(room_number, conn) = {}
             THEN /\ stays_in_room' = stays_in_room
                  /\ admin_logs' = viewed
                  /\ last' = Call("guest_management", s, selected_checkout,
                                  NoArg, <<"raise", "IndexError">>, PageCrashed)
             ELSE /\ room_id \in first_room_id(room_number, conn)
                  /\ stays_in_room' = r.stays_in_room
                  /\ admin_logs' =
                       IF r.ret = <<"True">>
                       THEN log_admin_action(checked_out,
                                             "VIEWED_GUEST_MANAGEMENT", "")
                       ELSE viewed
                  /\ last' = Call("checkout_guest", s, selected_checkout,
                                  NoArg, r.ret,
                                  IF r.ret = <<"True">>
                                  THEN "Guest checked out successfully!"
                                  ELSE "Failed to checkout guest")
          /\ UNCHANGED <<users, guest, feedback, hostel, room,
                         session_state, now>>

\* hostel_management with the Add Hostel form submitted
hostel_management_add(s, hostel_name, hostel_location, conn) ==
  IF ~session_state[s].is_admin THEN Unauthorized("hostel_management", s)
  ELSE LET viewed == IF conn = "ok"
                     THEN log_admin_action(admin_logs, "VIEWED_HOSTEL_MANAGEMENT", "")
                     ELSE admin_logs
           r == add_hostel(hostel_name, hostel_location, conn)
           added == log_admin_action(viewed, "HOSTEL_ADDED",
                                     "Added hostel: " \o hostel_name)
       IN /\ IF hostel_name = "" \/ hostel_location = ""
             THEN /\ hostel' = hostel
                  /\ admin_logs' = viewed
                  /\ last' = Call("hostel_management", s, None, NoArg, << >>,
                                  "Please fill in all fields")
             ELSE /\ hostel' = r.hostel
                  /\ admin_logs' =
                       IF r.ret = <<"True">>
                       THEN log_admin_action(added, "VIEWED_HOSTEL_MANAGEMENT", "")
                       ELSE viewed
                  /\ last' = Call("add_hostel", s, None, NoArg, r.ret,
                                  IF r.ret = <<"True">>
                                  THEN "Hostel '" \o hostel_name \o "' added successfully!"
                                  ELSE "Failed to add hostel")
          /\ UNCHANGED <<users, guest, stays_in_room, feedback, room,
                         session_state, now>>

\* room_management with the Add Room form submitted; hostel_options is a dict
\* keyed by hostel name, so of several hostels of one name it keeps one
room_management_add(s, room_number, room_type, selected_hostel, hostel_id, conn) ==
  IF ~session_state[s].is_admin THEN Unauthorized("room_management", s)
  ELSE LET viewed == IF conn = "ok"
                     THEN log_admin_action(admin_logs, "VIEWED_ROOM_MANAGEMENT", "")
                     ELSE admin_logs
           r == add_room(room_number, room_type, hostel_id, conn)
           added == log_admin_action(viewed, "ROOM_ADDED",
                      "Added room " \o room_number \o " to hostel " \o selected_hostel)
       IN /\ conn = "ok"
          /\ \E h \in hostel : h.name = selected_hostel /\ h.hostel_id = hostel_id
          /\ IF room_number = ""
             THEN /\ room' = room
                  /\ admin_logs' = viewed
                  /\ last' = Call("room_management", s, None, NoArg, << >>,
                                  "Please fill in all fields")
             ELSE /\ room' = r.room
                  /\ admin_logs' =
                       IF r.ret = <<"True">>
                       THEN log_admin_action(added, "VIEWED_ROOM_MANAGEMENT", "")
                       ELSE viewed
                  /\ last' = Call("add_room", s, None, NoArg, r.ret,
                                  IF r.ret = <<"True">>
                                  THEN "Room " \o room_number \o " added to "
                                       \o selected_hostel \o "!"
                                  ELSE "Failed to add room")
          /\ UNCHANGED <<users, guest, stays_in_room, feedback, hostel,
                         session_state, now>>

admin_view_logging_first(page, action, s, conn) ==
  /\ admin_logs' = IF action # "" /\ conn = "ok"
                   THEN log_admin_action(admin_logs, action, "")
                   ELSE admin_logs
  /\ last' = Call(page, s, None, NoArg, << >>,
                  IF session_state[s].is_admin THEN page
                  ELSE "Unauthorized access")
  /\ UNCHANGED <<users, guest, stays_in_room, feedback, hostel, room,
                 session_state, now>>

\* the admin pages that only show data: the gate, then the VIEWED_... entry
\* each of them logs (admin_dashboard logs nothing)
admin_view(page, action, s, conn) ==
  IF ~session_state[s].is_admin THEN Unauthorized(page, s)
  ELSE /\ admin_logs' = IF action # "" /\ conn = "ok"
                        THEN log_admin_action(admin_logs, action, "")
                        ELSE admin_logs
       /\ last' = Call(page, s, None, NoArg, << >>, page)
       /\ UNCHANGED <<users, guest, stays_in_room, feedback, hostel, room,
                      session_state, now>>

admin_dashboard(s, conn) == admin_view("admin_dashboard", "", s, conn)
hostel_management(s, conn) ==
  admin_view("hostel_management", "VIEWED_HOSTEL_MANAGEMENT", s, conn)
room_management(s, conn) ==
  admin_view("room_management", "VIEWED_ROOM_MANAGEMENT", s, conn)
\* the admin Hostel Feedback page: the gate, the VIEWED_HOSTEL_FEEDBACK entry,
\* the listing of get_hostel_feedback() (the page stops when it is empty) and
\* the chart of get_rating_statistics('hostel')
hostel_feedback_viewer(s, conn) ==
  IF ~session_state[s].is_admin THEN Unauthorized("hostel_feedback_viewer", s)
  ELSE LET hostel_data == get_hostel_feedback(conn)
           rating_stats == get_rating_statistics("hostel", conn)
       IN /\ admin_logs' = IF conn = "ok"
                           THEN log_admin_action(admin_logs,
                                                 "VIEWED_HOSTEL_FEEDBACK", "")
                           ELSE admin_logs
          /\ last' = IF hostel_data = {}
                     THEN Call("hostel_feedback_viewer", s, None, NoArg, << >>,
                               "No hostel feedback submissions yet")
                     ELSE [Call("hostel_feedback_viewer", s, None, NoArg, << >>,
                                "Hostel Feedback Analysis")
                           EXCEPT !.rows = hostel_data, !.chart = rating_stats]
          /\ UNCHANGED <<users, guest, stays_in_room, feedback, hostel, room,
                         session_state, now>>
mess_feedback_viewer(s, conn) ==
  admin_view("mess_feedback_viewer", "VIEWED_MESS_FEEDBACK", s, conn)
bathroom_feedback_viewer(s, conn) ==
  admin_view("bathroom_feedback_viewer", "VIEWED_BATHROOM_FEEDBACK", s, conn)
\* the admin All Feedback page: the gate, the VIEWED_ALL_FEEDBACK entry and
\* the listing of get_all_feedback()
feedback_viewer(s, conn) ==
  IF ~session_state[s].is_admin THEN Unauthorized("feedback_viewer", s)
  ELSE LET listing == get_all_feedback(conn)
       IN /\ admin_logs' = IF conn = "ok"
                           THEN log_admin_action(admin_logs, "VIEWED_ALL_FEEDBACK", "")
                           ELSE admin_logs
          /\ last' = [Call("feedback_viewer", s, None, NoArg, << >>,
                           IF listing = {} THEN "No feedback submissions yet"
                           ELSE "Complete Feedback Records")
                      EXCEPT !.rows = listing]
          /\ UNCHANGED <<users, guest, stays_in_room, feedback, hostel, room,
                         session_state, now>>

----------------------------------------------------------------------------
(* History kept with each step: what a username has submitted since its     *)
(* registration.                                                            *)

registered(u) ==
  submitted' = IF users' # users /\ u \in Usernames
               THEN [submitted EXCEPT ![u] = << >>]
               ELSE submitted

submitted_by(u, d) ==
  submitted' = IF feedback' # feedback /\ u \in Usernames
               THEN [submitted EXCEPT ![u] = Append(@, d)]
               ELSE submitted

----------------------------------------------------------------------------
(* One step of a session driven through main(): the page comes from the     *)
(* menu main() builds for the session, and the store can be opened.         *)

Register ==
  \E s \in Sessions, u \in Usernames, p \in Passwords, c \in Passwords,
     d \in FormData :
     /\ "Register" \in Pages(s) /\ register_page(s, u, p, c, d, "ok")
     /\ registered(u)
     /\ script_run[s] = Idle
     /\ UNCHANGED script_run

StudentLogin ==
  \E s \in Sessions, cred \in StudentLoginInputs :
     /\ "Login" \in Pages(s) /\ student_login(s, cred[1], cred[2], "ok")
     /\ script_run[s] = Idle
     /\ UNCHANGED <<script_run, submitted>>

AdminLogin ==
  \E s \in Sessions, cred \in AdminLoginInputs :
     /\ "Login" \in Pages(s) /\ admin_login(s, cred[1], cred[2], "ok")
     /\ script_run[s] = Idle
     /\ UNCHANGED <<script_run, submitted>>

UserLogout ==
  \E s \in Sessions :
     /\ ~session_state[s].is_admin /\ session_state[s].logged_in
     /\ user_logout(s)
     /\ script_run[s] = Idle
     /\ UNCHANGED <<script_run, submitted>>

AdminLogout ==
  \E s \in Sessions :
     /\ session_state[s].is_admin /\ admin_logout(s, "ok")
     /\ script_run[s] = Idle
     /\ UNCHANGED <<script_run, submitted>>

SubmitFeedback ==
  \E s \in Sessions, d \in FeedbackForms :
     /\ "Submit Feedback" \in Pages(s) /\ feedback_page(s, d, "ok")
     /\ submitted_by(session_state[s].current_user, d)
     /\ script_run[s] = Idle
     /\ UNCHANGED script_run

DeleteUser ==
  \E s \in Sessions, u \in Usernames :
     /\ "User Management" \in Pages(s) /\ user_manager(s, "delete", u, "ok")
     /\ script_run[s] = Idle
     /\ UNCHANGED <<script_run, submitted>>

ClearLogs ==
  \E s \in Sessions :
     /\ "System Logs" \in Pages(s) /\ system_logs(s, "clear", "ok")
     /\ script_run[s] = Idle
     /\ UNCHANGED <<script_run, submitted>>

GuestAssign ==
  \E s \in Sessions, g \in guest, rm \in RoomInputs :
     /\ "Guest Management" \in Pages(s)
     /\ guest_management_assign(s, g.name, g.guest_id, rm, "ok")
     /\ script_run[s] = Idle
     /\ UNCHANGED <<script_run, submitted>>

\* accounts, logins, feedback and user deletion
Next ==
  \/ Register /\ InBounds
  \/ StudentLogin /\ InBounds
  \/ AdminLogin /\ InBounds
  \/ UserLogout /\ InBounds
  \/ SubmitFeedback /\ InBounds
  \/ DeleteUser /\ InBounds

Spec == Init /\ [][Next]_vars

----------------------------------------------------------------------------
(* Calls made outside the menu: a page function run for a session whose     *)
(* menu does not hold the page, and submit_feedback called with values the  *)
(* feedback form cannot produce.                                            *)

DirectView ==
  \E s \in Sessions :
     /\ AdminPages \cap Pages(s) = {}
     /\ \/ admin_dashboard(s, "ok")
        \/ hostel_management(s, "ok")
        \/ room_management(s, "ok")
        \/ hostel_feedback_viewer(s, "ok")
        \/ mess_feedback_viewer(s, "ok")
        \/ bathroom_feedback_viewer(s, "ok")
        \/ feedback_viewer(s, "ok")
     /\ script_run[s] = Idle
     /\ UNCHANGED <<script_run, submitted>>

DirectUserManager ==
  \E s \in Sessions, u \in Usernames, click \in {"view", "delete"} :
     /\ "User Management" \notin Pages(s) /\ user_manager(s, click, u, "ok")
     /\ script_run[s] = Idle
     /\ UNCHANGED <<script_run, submitted>>

DirectSystemLogs ==
  \E s \in Sessions, click \in {"view", "clear"} :
     /\ "System Logs" \notin Pages(s) /\ system_logs(s, click, "ok")
     /\ script_run[s] = Idle
     /\ UNCHANGED <<script_run, submitted>>

DirectGuestManagement ==
  \E s \in Sessions, g \in guest, rm \in RoomInputs :
     /\ "Guest Management" \notin Pages(s)
     /\ guest_management_assign(s, g.name, g.guest_id, rm, "ok")
     /\ script_run[s] = Idle
     /\ UNCHANGED <<script_run, submitted>>

DirectFeedbackPage ==
  \E s \in Sessions, d \in FeedbackForms :
     /\ "Submit Feedback" \notin Pages(s) /\ feedback_page(s, d, "ok")
     /\ submitted_by(session_state[s].current_user, d)
     /\ script_run[s] = Idle
     /\ UNCHANGED script_run

direct_submit(u, d) ==
  LET r == submit_feedback(u, d, "ok")
  IN /\ HasUser(u)
     /\ feedback' = r.feedback
     /\ last' = Call("submit_feedback", 0, u, d, r.ret, "")
     /\ UNCHANGED <<users, guest, stays_in_room, admin_logs, hostel, room,
                    session_state, now>>

DirectSubmit ==
  \E u \in Usernames, d \in FeedbackInputs :
     /\ direct_submit(u, d)
     /\ submitted_by(u, d)
     /\ UNCHANGED script_run

NextDirect ==
  \/ Register /\ InBounds
  \/ StudentLogin /\ InBounds
  \/ AdminLogin /\ InBounds
  \/ DirectView /\ InBounds
  \/ DirectUserManager /\ InBounds
  \/ DirectSystemLogs /\ InBounds
  \/ DirectGuestManagement /\ InBounds
  \/ DirectFeedbackPage /\ InBounds
  \/ SubmitFeedback /\ InBounds
  \/ DirectSubmit /\ InBounds

SpecDirect == Init /\ [][NextDirect]_vars

----------------------------------------------------------------------------
(* The store cannot be opened: sqlite3.connect fails inside                 *)
(* get_db_connection and the body of the with statement sees None.          *)

RegisterStoreDown ==
  \E s \in Sessions, u \in Usernames, p \in Passwords, d \in UserData :
     /\ "Register" \in Pages(s) /\ register_page(s, u, p, p, d, "fail")
     /\ registered(u)
     /\ script_run[s] = Idle
     /\ UNCHANGED script_run

StudentLoginStoreDown ==
  \E s \in Sessions, u \in Usernames, p \in Passwords :
     /\ "Login" \in Pages(s) /\ student_login(s, u, p, "fail")
     /\ script_run[s] = Idle
     /\ UNCHANGED <<script_run, submitted>>

SubmitFeedbackStoreDown ==
  \E s \in Sessions, d \in FeedbackForms :
     /\ "Submit Feedback" \in Pages(s) /\ feedback_page(s, d, "fail")
     /\ submitted_by(session_state[s].current_user, d)
     /\ script_run[s] = Idle
     /\ UNCHANGED script_run

NextFault ==
  \/ Next
  \/ RegisterStoreDown /\ InBounds
  \/ StudentLoginStoreDown /\ InBounds
  \/ SubmitFeedbackStoreDown /\ InBounds

SpecFault == Init /\ [][NextFault]_vars

----------------------------------------------------------------------------
(* Administration: several administrator sessions at once, a run of         *)
(* user_manager taken call by call, the log and its clearing.               *)

UserManagerSelect ==
  \E s \in Sessions, u \in Usernames :
     "User Management" \in Pages(s) /\ user_manager_select(s, u, "ok")

UserManagerDelete ==
  \E s \in Sessions : user_manager_delete(s, "ok")

SystemLogsClear ==
  \E s \in Sessions :
     "System Logs" \in Pages(s) /\ system_logs_clear(s, "ok")

SystemLogsCleared ==
  \E s \in Sessions : system_logs_cleared(s, "ok")

InAuditBounds ==
  /\ Cardinality(guest') <= MaxAuditUsers
  /\ Len(admin_logs') <= MaxAuditLogs

NextAudit ==
  \/ Register /\ InAuditBounds
  \/ AdminLogin /\ InAuditBounds
  \/ AdminLogout /\ InAuditBounds
  \/ UserManagerSelect /\ InAuditBounds
  \/ UserManagerDelete /\ InAuditBounds
  \/ SystemLogsClear /\ InAuditBounds
  \/ SystemLogsCleared /\ InAuditBounds

SpecAudit == Init /\ [][NextAudit]_vars

----------------------------------------------------------------------------
(* The example scenario: students register, log in and submit, the          *)
(* administrator reads the All Feedback page and deletes accounts.          *)

FeedbackViewer ==
  \E s \in Sessions :
     /\ "All Feedback" \in Pages(s) /\ feedback_viewer(s, "ok")
     /\ script_run[s] = Idle
     /\ UNCHANGED <<script_run, submitted>>

InScenarioBounds ==
  /\ Cardinality(guest') <= MaxScenarioAccounts
  /\ Cardinality(feedback') <= MaxScenarioFeedback
  /\ Len(admin_logs') <= MaxScenarioLogs

NextScenario ==
  \/ Register /\ InScenarioBounds
  \/ StudentLogin /\ InScenarioBounds
  \/ UserLogout /\ InScenarioBounds
  \/ SubmitFeedback /\ InScenarioBounds
  \/ AdminLogin /\ InScenarioBounds
  \/ FeedbackViewer /\ InScenarioBounds
  \/ DeleteUser /\ InScenarioBounds

SpecScenario == Init /\ [][NextScenario]_vars

----------------------------------------------------------------------------
(* Rooms and stays: the management pages of the administrator, and          *)
(* assign_room_to_guest and checkout_guest called with any ids.             *)

GuestCheckout ==
  \E s \in Sessions, c \in current_stays, rm \in room, d \in DateInputs :
     /\ "Guest Management" \in Pages(s)
     /\ guest_management_checkout(s, c[1].guest_id, c[3].room_number,
                                  rm.room_id, d, "ok")
     /\ script_run[s] = Idle
     /\ UNCHANGED <<script_run, submitted>>

HostelAdd ==
  \E s \in Sessions, n \in HostelNameInputs :
     /\ "Hostel Management" \in Pages(s)
     /\ hostel_management_add(s, n, "Campus West", "ok")
     /\ script_run[s] = Idle
     /\ UNCHANGED <<script_run, submitted>>

RoomAdd ==
  \E s \in Sessions, n \in RoomNumberInputs, h \in hostel :
     /\ "Room Management" \in Pages(s)
     /\ room_management_add(s, n, "Single", h.name, h.hostel_id, "ok")
     /\ script_run[s] = Idle
     /\ UNCHANGED <<script_run, submitted>>

direct_assign(guest_id, room_id, check_in_date) ==
  LET r == assign_room_to_guest(guest_id, room_id, check_in_date, "ok")
  IN /\ stays_in_room' = r.stays_in_room
     /\ last' = Call("assign_room_to_guest", 0, None, NoArg, r.ret, "")
     /\ UNCHANGED <<users, guest, feedback, admin_logs, hostel, room,
                    session_state, now, script_run, submitted>>

DirectAssign ==
  \E p \in StayInputs : direct_assign(p[1], p[2], now)

direct_checkout(guest_id, room_id, check_out_date) ==
  LET r == checkout_guest(guest_id, room_id, check_out_date, "ok")
  IN /\ stays_in_room' = r.stays_in_room
     /\ last' = Call("checkout_guest", 0, None, NoArg, r.ret, "")
     /\ UNCHANGED <<users, guest, feedback, admin_logs, hostel, room,
                    session_state, now, script_run, submitted>>

DirectCheckout ==
  \E p \in StayInputs, d \in DateInputs : direct_checkout(p[1], p[2], d)

direct_add_hostel(name, location) ==
  LET r == add_hostel(name, location, "ok")
  IN /\ hostel' = r.hostel
     /\ last' = Call("add_hostel", 0, None, NoArg, r.ret, "")
     /\ UNCHANGED <<users, guest, stays_in_room, feedback, admin_logs, room,
                    session_state, now, script_run, submitted>>

DirectAddHostel == \E n \in HostelNameInputs : direct_add_hostel(n, "Campus West")

direct_add_room(room_number, room_type, hostel_id) ==
  LET r == add_room(room_number, room_type, hostel_id, "ok")
  IN /\ room' = r.room
     /\ last' = Call("add_room", 0, None, NoArg, r.ret, "")
     /\ UNCHANGED <<users, guest, stays_in_room, feedback, admin_logs, hostel,
                    session_state, now, script_run, submitted>>

DirectAddRoom ==
  \E n \in RoomNumberInputs, h \in hostel :
     direct_add_room(n, "Single", h.hostel_id)

\* the student of these runs
StaysRegister ==
  \E s \in Sessions, d \in UserData :
     /\ "Register" \in Pages(s) /\ register_page(s, "alice", "pw1", "pw1", d, "ok")
     /\ registered("alice")
     /\ UNCHANGED script_run

StaysLogin ==
  \E s \in Sessions :
     /\ "Login" \in Pages(s) /\ student_login(s, "alice", "pw1", "ok")
     /\ UNCHANGED <<script_run, submitted>>

StaysSubmit ==
  \E s \in Sessions, d \in FeedbackForms :
     /\ "Submit Feedback" \in Pages(s) /\ feedback_page(s, d, "ok")
     /\ d.hostel_rating = "B"
     /\ submitted_by(session_state[s].current_user, d)
     /\ UNCHANGED script_run

InStayBounds ==
  Cardinality(stays_in_room') + Cardinality(feedback')
     + Cardinality(hostel') + Cardinality(room')
    <= Cardinality(InitHostel) + Cardinality(InitRoom) + MaxInserted

NextStays ==
  \/ StaysRegister /\ InStayBounds
  \/ StaysLogin /\ InStayBounds
  \/ StaysSubmit /\ InStayBounds
  \/ DirectAssign /\ InStayBounds
  \/ DirectCheckout /\ InStayBounds
  \/ DirectAddHostel /\ InStayBounds
  \/ DirectAddRoom /\ InStayBounds

SpecStays == Init /\ [][NextStays]_vars

----------------------------------------------------------------------------
(* Sessions and the log: students who pick the administrator's username,    *)
(* both logouts, forms that fail their checks, pages called outside the     *)
(* menu and a store that cannot be opened.                                  *)

SessionRegister ==
  \E s \in Sessions, u \in {"alice"} \cup AdminLikeUsernames, c \in Passwords,
     d \in FormData :
     /\ "Register" \in Pages(s)
     /\ register_page(s, u, "pw1", c, d, "ok")
     /\ registered(u)
     /\ UNCHANGED script_run

SessionLogin ==
  \E s \in Sessions, u \in {"alice"} \cup AdminLikeUsernames,
     p \in {"pw1", ADMIN_PASSWORD}, conn \in ConnOutcomes :
     /\ "Login" \in Pages(s) /\ student_login(s, u, p, conn)
     /\ UNCHANGED <<script_run, submitted>>

SessionHostelAdd ==
  \E s \in Sessions, n \in HostelNameInputs \cup {""} :
     /\ "Hostel Management" \in Pages(s)
     /\ hostel_management_add(s, n, "Campus West", "ok")
     /\ UNCHANGED <<script_run, submitted>>

InSessionBounds ==
  Cardinality(guest') + Cardinality(feedback') + Cardinality(hostel')
     + Len(admin_logs')
    <= Cardinality(InitHostel) + MaxSessionWrites

NextSession ==
  \/ SessionRegister /\ InSessionBounds
  \/ SessionLogin /\ InSessionBounds
  \/ AdminLogin /\ InSessionBounds
  \/ UserLogout /\ InSessionBounds
  \/ AdminLogout /\ InSessionBounds
  \/ StaysSubmit /\ InSessionBounds
  \/ SubmitFeedbackStoreDown /\ InSessionBounds
  \/ DirectView /\ InSessionBounds
  \/ SessionHostelAdd /\ InSessionBounds

SpecSession == Init /\ [][NextSession]_vars

----------------------------------------------------------------------------
(* Every kind of operation side by side: accounts, logins and logouts,      *)
(* feedback, a reporting view, and rooms and stays.                         *)

FrameRegister ==
  \E s \in Sessions, u \in Usernames, d \in UserData :
     /\ "Register" \in Pages(s) /\ register_page(s, u, "pw1", "pw1", d, "ok")
     /\ registered(u)
     /\ UNCHANGED script_run

InFrameBounds ==
  Cardinality(guest') + Cardinality(feedback') + Cardinality(stays_in_room')
     + Cardinality(hostel') + Cardinality(room') + Len(admin_logs')
    <= Cardinality(InitHostel) + Cardinality(InitRoom) + MaxFrameWrites

NextFrame ==
  \/ FrameRegister /\ InFrameBounds
  \/ StudentLogin /\ InFrameBounds
  \/ UserLogout /\ InFrameBounds
  \/ StaysSubmit /\ InFrameBounds
  \/ AdminLogin /\ InFrameBounds
  \/ FeedbackViewer /\ InFrameBounds
  \/ DirectAssign /\ InFrameBounds
  \/ DirectCheckout /\ InFrameBounds
  \/ DirectAddHostel /\ InFrameBounds
  \/ DirectAddRoom /\ InFrameBounds

SpecFrame == Init /\ [][NextFrame]_vars

----------------------------------------------------------------------------
(* The reports: students submit feedback, the administrator opens the       *)
(* Hostel Feedback page, and get_rating_statistics is called for each       *)
(* category.                                                                *)

HostelFeedbackViewer ==
  \E s \in Sessions :
     /\ "Hostel Feedback" \in Pages(s) /\ hostel_feedback_viewer(s, "ok")
     /\ UNCHANGED <<script_run, submitted>>

direct_rating_statistics(rating_type) ==
  /\ last' = [Call("get_rating_statistics", 0, None, NoArg, << >>, rating_type)
              EXCEPT !.chart = get_rating_statistics(rating_type, "ok")]
  /\ UNCHANGED <<tables, session_state, now, script_run, submitted>>

DirectRatingStatistics ==
  \E rating_type \in RatingTypes : direct_rating_statistics(rating_type)

InReportBounds ==
  Cardinality(guest') + Cardinality(feedback') + Len(admin_logs')
    <= MaxReportWrites

NextReports ==
  \/ FrameRegister /\ InReportBounds
  \/ StaysLogin /\ InReportBounds
  \/ SubmitFeedback /\ InReportBounds
  \/ AdminLogin /\ InReportBounds
  \/ HostelFeedbackViewer /\ InReportBounds
  \/ DirectRatingStatistics /\ InReportBounds

SpecReports == Init /\ [][NextReports]_vars

----------------------------------------------------------------------------
(* The Guest Management page: the administrator assigns rooms and checks    *)
(* guests out through the forms, and adds rooms on Room Management.         *)

InDeskBounds ==
  Cardinality(guest') + Cardinality(stays_in_room') + Cardinality(room')
     + Len(admin_logs')
    <= Cardinality(InitRoom) + MaxDeskWrites

NextDesk ==
  \/ FrameRegister /\ InDeskBounds
  \/ AdminLogin /\ InDeskBounds
  \/ GuestAssign /\ InDeskBounds
  \/ GuestCheckout /\ InDeskBounds
  \/ RoomAdd /\ InDeskBounds

SpecDesk == Init /\ [][NextDesk]_vars

----------------------------------------------------------------------------
(* Registrations of several sessions taken statement by statement.          *)

RegisterSelect ==
  \E s \in Sessions, u \in Usernames, p \in Passwords :
     /\ "Register" \in Pages(s) /\ register_page_select(s, u, p, "ok")
     /\ UNCHANGED submitted

RegisterInsert ==
  \E s \in Sessions, d \in UserData :
     /\ register_page_insert(s, d, "ok")
     /\ registered(script_run[s][2])

NextRace ==
  \/ RegisterSelect
  \/ RegisterInsert
  \/ StudentLogin

SpecRace == Init /\ [][NextRace]_vars

----------------------------------------------------------------------------
(* Logins over time: datetime.now() moves on between the steps.             *)

Tick ==
  /\ now < MaxTime
  /\ now' = now + 1
  /\ UNCHANGED <<tables, session_state, last, script_run, submitted>>

InClockBounds == Cardinality(guest') <= MaxClockAccounts

NextClock ==
  \/ Tick
  \/ Register /\ InClockBounds
  \/ StudentLogin /\ InClockBounds
  \/ UserLogout /\ InClockBounds

SpecClock == Init /\ [][NextClock]_vars

----------------------------------------------------------------------------
(* Properties *)

StoreOf(u) == { r \in users : r.username = u }

\* C1: after delete_user(u) succeeds there is no Feedback row whose username
\* is u, no Guest row linked to the deleted User and no Stay row of that Guest.
C1_DeleteCascades ==
  [][\A s \in Sessions, u \in Usernames :
       ( /\ "User Management" \in Pages(s)
         /\ user_manager(s, "delete", u, "ok")
         /\ last'.ret = <<"True">> )
       => LET ids == { r.id : r \in StoreOf(u) }
              gids == { g.guest_id : g \in { x \in guest : x.user_id \in ids } }
          IN /\ \A f \in feedback' : f.username # u
             /\ \A g \in guest' : g.user_id \notin ids
             /\ \A st \in stays_in_room' : st.guest_id \notin gids]_vars

\* C2: a register call for a username already present in Users returns
\* (False, "Username already exists") and leaves every table as it was.
C2_DuplicateUsernameRejected ==
  [][last'.op = "register_user" =>
     \A s \in Sessions, u \in Usernames, p \in Passwords, d \in UserData :
       ( /\ StoreOf(u) # {}
         /\ "Register" \in Pages(s)
         /\ register_page(s, u, p, p, d, "ok") )
       => /\ last'.ret = <<"False", "Username already exists">>
          /\ last'.out = "Username already exists"
          /\ UNCHANGED tables]_vars

C2_Witness ==
  /\ last.op = "register_user"
  /\ last.ret = <<"False", "Username already exists">>
  /\ users # {}

\* C3: student authentication succeeds exactly when a User row with that
\* username holds the digest of the password given; the session is logged in
\* as that username exactly then.
C3_LoginIffDigestMatches ==
  [][last'.op = "authenticate_user" =>
     \A s \in Sessions, u \in LoginUsernames, p \in LoginPasswords :
       ( /\ "Login" \in Pages(s)
         /\ student_login(s, u, p, "ok") )
       => LET stored == \E r \in StoreOf(u) : r.password = <<"sha256", p>>
          IN /\ (last'.ret = <<"True">>) <=> stored
             /\ session_state'[s].logged_in <=> stored
             /\ StoreOf(u) = {} => last'.ret = <<"False">>]_vars

C3_Witness ==
  /\ last.op = "authenticate_user"
  /\ last.ret = <<"True">>
  /\ \E s \in Sessions :
        /\ session_state[s].logged_in
        /\ ~session_state[s].is_admin
        /\ StoreOf(session_state[s].current_user) # {}

\* C4: a student login with an unknown username and one with a known username
\* and a wrong password end in the same message, the same session state and
\* the same store: every outcome of the one is an outcome of the other.
C4_LoginFailuresIndistinguishable ==
  [][last'.op = "authenticate_user" =>
     \A s \in Sessions, u1 \in LoginUsernames, u2 \in Usernames,
        p1, p2 \in Passwords :
       ( /\ "Login" \in Pages(s)
         /\ StoreOf(u1) = {}
         /\ StoreOf(u2) # {}
         /\ \A r \in StoreOf(u2) : r.password # <<"sha256", p2>> )
       => /\ student_login(s, u1, p1, "ok") <=> student_login(s, u2, p2, "ok")
          /\ student_login(s, u2, p2, "ok")
               => /\ last'.out = "Invalid credentials"
                  /\ UNCHANGED <<tables, session_state>>]_vars

C4_Witness ==
  /\ last.op = "authenticate_user"
  /\ last.ret = <<"False">>
  /\ last.out = "Invalid credentials"
  /\ \E u \in Usernames : StoreOf(u) # {}
  /\ \E u \in Usernames : StoreOf(u) = {}

\* C5: an admin page run for a session whose is_admin flag is false shows the
\* authorization warning and changes no table and no session.
C5_AdminPagesFailClosed ==
  [][last'.op \notin {"register_user", "register_page", "authenticate_user",
                      "authenticate_admin", "submit_feedback"} =>
     \A s \in Sessions :
       ( /\ ~session_state[s].is_admin
         /\ \/ admin_dashboard(s, "ok")
            \/ hostel_management(s, "ok")
            \/ room_management(s, "ok")
            \/ hostel_feedback_viewer(s, "ok")
            \/ mess_feedback_viewer(s, "ok")
            \/ bathroom_feedback_viewer(s, "ok")
            \/ feedback_viewer(s, "ok")
            \/ \E u \in Usernames, click \in {"view", "delete"} :
                  user_manager(s, click, u, "ok")
            \/ \E click \in {"view", "clear"} : system_logs(s, click, "ok")
            \/ \E g \in guest, rm \in RoomInputs :
                  guest_management_assign(s, g.name, g.guest_id, rm, "ok") )
       => /\ last'.out = "Unauthorized access"
          /\ last'.ret = << >>
          /\ UNCHANGED <<tables, session_state>>]_vars

C5_Witness ==
  /\ last.op = "user_manager"
  /\ last.out = "Unauthorized access"
  /\ users # {}
  /\ \E s \in Sessions : session_state[s].logged_in /\ ~session_state[s].is_admin

\* C6: every Feedback row in the store has its three ratings in {A,B,C,D,E}
\* and its mess type in {Veg, Non-Veg, Special, Food-Park}.
C6_StoredFeedbackInEnumerations ==
  \A f \in feedback :
     /\ f.hostel_rating \in {"A", "B", "C", "D", "E"}
     /\ f.mess_rating \in {"A", "B", "C", "D", "E"}
     /\ f.bathroom_rating \in {"A", "B", "C", "D", "E"}
     /\ f.mess_type \in {"Veg", "Non-Veg", "Special", "Food-Park"}

C6_Witness ==
  /\ feedback # {}
  /\ last.op = "submit_feedback"
  /\ last.ret = BodyError

\* C7: submit with a rating or a mess type outside the enumerations returns
\* failure to its caller and leaves the Feedback table unchanged.
C7_IllegalSubmitReturnsFailure ==
  [][\A u \in Usernames, d \in IllegalFeedback :
       direct_submit(u, d) => last'.ret = <<"False">> /\ feedback' = feedback]_vars

\* C8: whenever a Feedback row is created, a User row with the same username
\* is in the store at that moment.
C8_FeedbackOwnerExists ==
  [][\A f \in feedback' \ feedback : StoreOf(f.username) # {}]_vars

\* C9: after a register call either the new User row, holding the digest of
\* the password, and exactly one Guest row linked to that User's id exist, or
\* neither table has changed.
C9_RegisterAtomic ==
  [][\A s \in Sessions, u \in Usernames, p \in Passwords, d \in UserData :
       ( "Register" \in Pages(s) /\ register_page(s, u, p, p, d, "ok") )
       => \/ users' = users /\ guest' = guest
          \/ \E r \in users' \ users :
                /\ r.username = u
                /\ r.password = <<"sha256", p>>
                /\ Cardinality({ g \in guest' : g.user_id = r.id }) = 1]_vars

\* C10: when the store cannot be opened during register, register returns a
\* (failure, message) pair and writes neither a User nor a Guest row.
C10_RegisterStoreFailureReported ==
  [][\A s \in Sessions, u \in Usernames, p \in Passwords, d \in UserData :
       ( "Register" \in Pages(s) /\ register_page(s, u, p, p, d, "fail") )
       => /\ Len(last'.ret) = 2
          /\ last'.ret[1] = "False"
          /\ users' = users
          /\ guest' = guest]_vars

\* C11: an admin login with the fixed credential pair appends exactly one
\* AdminLog entry, whose action is "ADMIN_LOGIN", after the entries already
\* there; an admin login with any other pair leaves AdminLogs as it was.
C11_AdminLoginLogged ==
  [][last'.op = "authenticate_admin" =>
     \A s \in Sessions, cred \in AdminLoginInputs :
       ( /\ "Login" \in Pages(s)
         /\ admin_login(s, cred[1], cred[2], "ok") )
       => IF cred = <<"hostel_admin", "Soumya@1234">>
          THEN /\ Len(admin_logs') = Len(admin_logs) + 1
               /\ SubSeq(admin_logs', 1, Len(admin_logs)) = admin_logs
               /\ admin_logs'[Len(admin_logs')].action = "ADMIN_LOGIN"
               /\ session_state'[s].is_admin
          ELSE /\ admin_logs' = admin_logs
               /\ ~session_state'[s].is_admin]_vars

C11_Witness ==
  /\ last.op = "authenticate_admin"
  /\ last.ret = <<"True">>
  /\ Len(admin_logs) >= 2
  /\ admin_logs[Len(admin_logs)].action = "ADMIN_LOGIN"

\* the AdminLog entries a step writes
Appended ==
  { admin_logs'[i] : i \in { j \in 1..Len(admin_logs') :
                               j > Len(admin_logs) \/ admin_logs'[j] # admin_logs[j] } }

\* C12: a step appends an AdminLog entry "USER_DELETION" naming username u
\* exactly when the step removes a User row of u.
C12_DeletionLoggedIffRemoved ==
  [][\A u \in Usernames :
       (\E e \in Appended : /\ e.action = "USER_DELETION"
                             /\ e.details = "Deleted user: " \o u)
       <=> (StoreOf(u) # {} /\ StoreOf(u) \cap users' = {})]_vars

\* C13 as stated: when the run of the admin clear-logs operation has
\* completed, AdminLogs contains no entries.
C13_ClearedLogsEmpty ==
  [][\A s \in Sessions : system_logs_cleared(s, "ok") => admin_logs' = << >>]_vars

\* C13 as amended: clear_admin_logs leaves AdminLogs empty when it returns
\* success, and the clear-logs operation then appends its own "LOGS_CLEARED"
\* entry, so that AdminLogs is not empty once the operation has completed.
C13_ClearedLogsHoldOwnEntry ==
  [][\A s \in Sessions :
       /\ ( /\ "System Logs" \in Pages(s)
            /\ system_logs_clear(s, "ok")
            /\ last'.ret = <<"True">> )
          => admin_logs' = << >>
       /\ system_logs_cleared(s, "ok")
          => /\ Len(admin_logs') = Len(admin_logs) + 1
             /\ SubSeq(admin_logs', 1, Len(admin_logs)) = admin_logs
             /\ admin_logs'[Len(admin_logs')].action = "LOGS_CLEARED"]_vars

C13_Witness ==
  /\ last.op = "system_logs"
  /\ last.out = "Logs cleared successfully"
  /\ Len(admin_logs) = 1
  /\ admin_logs[1].action = "LOGS_CLEARED"
  /\ users # {}

\* C20: a step leaves every AdminLog entry in place and unmodified, adding
\* entries only after them, unless it is the DELETE of the clear-logs operation
\* run by an administrator session.
C20_AdminLogsAppendOnly ==
  [][\/ /\ Len(admin_logs') >= Len(admin_logs)
         /\ SubSeq(admin_logs', 1, Len(admin_logs)) = admin_logs
      \/ /\ last'.op = "clear_admin_logs"
         /\ \E s \in Sessions :
               session_state[s].is_admin /\ system_logs_clear(s, "ok")]_vars

C20_Witness ==
  /\ Len(admin_logs) >= 4
  /\ admin_logs[1].action = "LOGS_CLEARED"
  /\ \E i \in 1..Len(admin_logs) : admin_logs[i].action = "USER_DELETION"
  /\ \E i \in 1..Len(admin_logs) : admin_logs[i].action = "ADMIN_LOGOUT"

\* what a listing row shows of the feedback_data it was submitted with
Shown(f) ==
  [hostel_feedback |-> f.hostel_feedback, hostel_rating |-> f.hostel_rating,
   mess_feedback |-> f.mess_feedback, mess_type |-> f.mess_type,
   mess_rating |-> f.mess_rating, bathroom_feedback |-> f.bathroom_feedback,
   bathroom_rating |-> f.bathroom_rating, other_comments |-> f.other_comments]

\* C14: when the All Feedback page is shown to the administrator, every
\* registered username that has made one submission since it was registered
\* has exactly one row in the listing, and that row carries the ratings, the
\* mess type and the comments submitted.
C14_ScenarioListing ==
  [][last'.op = "feedback_viewer" =>
     \A u \in Usernames :
       ( /\ StoreOf(u) # {}
         /\ Len(submitted[u]) = 1 )
       => LET mine == { f \in last'.rows : f.username = u }
          IN /\ Cardinality(mine) = 1
             /\ \A f \in mine : Shown(f) = submitted[u][1]]_vars

\* C15: a successful student login leaves the last_login of the User row of
\* that username at a time not earlier than the time right before the call,
\* and every other User row as it was.
C15_LastLoginUpdated ==
  [][last'.op = "authenticate_user" =>
     \A s \in Sessions, cred \in StudentLoginInputs :
       ( /\ "Login" \in Pages(s)
         /\ student_login(s, cred[1], cred[2], "ok")
         /\ last'.ret = <<"True">> )
       => /\ \A r \in users' :
               r.username = cred[1]
               => r.last_login # << >> /\ r.last_login[1] >= now
          /\ \A r \in users : r.username # cred[1] => r \in users']_vars

C15_Witness ==
  /\ last.op = "authenticate_user"
  /\ last.ret = <<"True">>
  /\ now = 2
  /\ \E r \in users : r.last_login = <<1>>
  /\ \E r \in users : r.last_login = <<2>>

\* C16: a student login that finds no row for the username and the digest,
\* and an admin login with another pair than the fixed one, leave Users,
\* AdminLogs and every session as they were, so that credentials that were
\* right before the attempt are still right after it.
C16_FailedLoginChangesNothing ==
  [][last'.op \in {"authenticate_user", "authenticate_admin"} =>
     \A s \in Sessions :
       /\ \A cred \in StudentLoginInputs :
            ( /\ "Login" \in Pages(s)
              /\ student_login(s, cred[1], cred[2], "ok")
              /\ ~\E r \in StoreOf(cred[1]) : r.password = <<"sha256", cred[2]>> )
            => /\ UNCHANGED <<users, admin_logs, session_state>>
               /\ last'.out = "Invalid credentials"
               /\ \A c \in StudentLoginInputs :
                    authenticate_user(c[1], c[2], "ok").ret = <<"True">>
                    => \E r \in users' : /\ r.username = c[1]
                                          /\ r.password = <<"sha256", c[2]>>
       /\ \A cred \in AdminLoginInputs :
            ( /\ "Login" \in Pages(s)
              /\ admin_login(s, cred[1], cred[2], "ok")
              /\ cred # <<"hostel_admin", "Soumya@1234">> )
            => /\ UNCHANGED <<users, admin_logs, session_state>>
               /\ last'.out = "Invalid admin credentials"]_vars

C16_Witness ==
  /\ last.op = "authenticate_user"
  /\ last.ret = <<"False">>
  /\ admin_logs # << >>
  /\ \E r \in users : r.last_login # << >>
  /\ \E s \in Sessions : session_state[s].is_admin

\* C17: a run of feedback_page creates a Feedback row only for a session that
\* is logged in, and the row carries that session's current_user; run for a
\* session that is not logged in it creates none.
C17_FeedbackOnlyWhenLoggedIn ==
  [][last'.op \in {"submit_feedback", "feedback_page"} =>
     \A s \in Sessions, d \in FeedbackForms :
       feedback_page(s, d, "ok")
       => /\ ~session_state[s].logged_in => feedback' = feedback
          /\ \A f \in feedback' \ feedback :
               /\ session_state[s].logged_in
               /\ f.username = session_state[s].current_user
               /\ session_state[s].current_user # "<None>"]_vars

C17_Witness ==
  /\ last.op = "feedback_page"
  /\ last.out = "Please login first"
  /\ feedback # {}
  /\ \E s \in Sessions : ~session_state[s].logged_in

\* C18: assign_room_to_guest inserts a Stay whenever the guest and the room
\* exist, whatever Stays the guest already has, and it is refused, inserting
\* nothing, when the guest or the room does not exist.
C18_AssignRefusedOnlyForMissingRows ==
  [][last'.op = "assign_room_to_guest" =>
     \A p \in StayInputs :
       direct_assign(p[1], p[2], now)
       => LET both == /\ \E g \in guest : g.guest_id = p[1]
                      /\ \E r \in room : r.room_id = p[2]
          IN /\ both => /\ last'.ret = <<"True">>
                         /\ \E st \in stays_in_room' \ stays_in_room :
                              /\ st.guest_id = p[1]
                              /\ st.room_id = p[2]
                              /\ st.check_out_date = NULL
             /\ ~both => /\ last'.ret # <<"True">>
                          /\ stays_in_room' = stays_in_room]_vars

\* C19: a Stay whose check-out date is set keeps that date through every
\* step: it is neither set back to null nor changed to another date.
C19_CheckOutDateKept ==
  [][\A st \in stays_in_room :
       st.check_out_date # NULL
       => \A st2 \in stays_in_room' :
            st2.stay_id = st.stay_id
            => st2.check_out_date = st.check_out_date]_vars

C19_Witness ==
  /\ last.op = "checkout_guest"
  /\ \E st, st2 \in stays_in_room :
       /\ st.guest_id = st2.guest_id
       /\ st.room_id = st2.room_id
       /\ st.check_out_date = <<1>>
       /\ st2.check_out_date = <<2>>
  /\ feedback # {}

\* C24: every User row has exactly one Guest row linked to it by user_id, and
\* a Guest row stays linked to the account it was created for: a row that a
\* registration adds is linked to no Guest row that was there before.
C24_GuestLinkedToOwnUser ==
  [][\A r \in users' :
       /\ Cardinality({ g \in guest' : g.user_id = r.id }) = 1
       /\ r.id \notin { x.id : x \in users }
          => ~\E g \in guest : g.user_id = r.id]_vars

\* C26: in every session state is_admin implies logged_in and current_user =
\* "admin", logged_in implies current_user is not None, and a session that is
\* not logged in has current_user None and is_admin false.
C26_SessionStateCoherent ==
  \A s \in Sessions :
     /\ session_state[s].is_admin
        => session_state[s].logged_in /\ session_state[s].current_user = "admin"
     /\ session_state[s].logged_in => session_state[s].current_user # None
     /\ ~session_state[s].logged_in
        => session_state[s].current_user = None /\ ~session_state[s].is_admin

C26_Witness ==
  /\ last.op = "authenticate_user"
  /\ last.ret = <<"False">>
  /\ \E s \in Sessions : session_state[s].is_admin
  /\ \E s \in Sessions : ~session_state[s].logged_in
  /\ \E i \in 1..Len(admin_logs) : admin_logs[i].action = "ADMIN_LOGOUT"

\* C27: a session's is_admin flag turns true only in a run of the admin login
\* form given the fixed username and password, whatever accounts students
\* have registered; an admin page run for a session that is not an
\* administrator's shows "Unauthorized access" and changes nothing.
C27_AdminOnlyByFixedCredentials ==
  [][\A s \in Sessions :
       /\ session_state'[s].is_admin /\ ~session_state[s].is_admin
          => /\ last'.op = "authenticate_admin"
             /\ last'.ret = <<"True">>
             /\ \A cred \in AdminLoginInputs :
                  admin_login(s, cred[1], cred[2], "ok")
                  => cred = <<ADMIN_USERNAME, ADMIN_PASSWORD>>
       /\ /\ ~session_state[s].is_admin
          /\ \/ admin_dashboard(s, "ok") \/ hostel_management(s, "ok")
             \/ room_management(s, "ok") \/ hostel_feedback_viewer(s, "ok")
             \/ mess_feedback_viewer(s, "ok") \/ bathroom_feedback_viewer(s, "ok")
             \/ feedback_viewer(s, "ok")
          => /\ last'.out = "Unauthorized access"
             /\ UNCHANGED <<tables, session_state>>]_vars

C27_Witness ==
  /\ last.out = "Unauthorized access"
  /\ \E r \in users : r.username = ADMIN_USERNAME
  /\ \E s \in Sessions :
       /\ session_state[s].logged_in
       /\ session_state[s].current_user \in AdminLikeUsernames
       /\ ~session_state[s].is_admin

\* what the pages show for an operation that failed
FailureMessages ==
  { "Invalid credentials", "Invalid admin credentials",
    "Please fill in all fields!", "Passwords don't match!",
    "Username already exists", "Please login first",
    "Failed to submit feedback. Please try again.", "Unauthorized access",
    "Please fill in all fields", "Failed to add hostel", PageCrashed }

\* the calls a student's or an unauthenticated visitor's pages make
StudentOps ==
  { "register_page", "register_user", "authenticate_user", "feedback_page",
    "submit_feedback", "user_logout" }

\* C22: a step whose operation failed (a failed login, a form that fails its
\* checks, a store error, an unauthorized page access) and a step of a
\* student or unauthenticated operation append no AdminLog entry.
C22_FailuresAndStudentsNotLogged ==
  [][last'.out \in FailureMessages \/ last'.op \in StudentOps
       => admin_logs' = admin_logs]_vars

\* C22, amended: a student or unauthenticated operation, a failed login and
\* an unauthorized page access append no AdminLog entry; a step appends
\* entries only when its session is an administrator's before or after it;
\* and an administrator's form that fails its checks appends the VIEWED_...
\* entry of its page and nothing else.
C22_OnlyAdminRunsLogged ==
  [][/\ \/ last'.op \in StudentOps
        \/ last'.out \in { "Invalid credentials", "Invalid admin credentials",
                            "Unauthorized access", "Please login first" }
        => admin_logs' = admin_logs
     /\ admin_logs' # admin_logs
        => \E s \in Sessions :
              session_state[s].is_admin \/ session_state'[s].is_admin
     /\ last'.out \in FailureMessages
        => /\ Len(admin_logs') <= Len(admin_logs) + 1
           /\ \A e \in Appended : e.action = "VIEWED_HOSTEL_MANAGEMENT"]_vars

C22_Witness ==
  /\ last.out = "Please fill in all fields"
  /\ Len(admin_logs) = 2
  /\ admin_logs[2].action = "VIEWED_HOSTEL_MANAGEMENT"
  /\ \E s \in Sessions : session_state[s].logged_in /\ ~session_state[s].is_admin

\* C21: a step leaves every User row as it is, except the row of the username
\* given to a successful student login, of which it changes last_login only.
C21_UserRowChangedOnlyByOwnLogin ==
  [][\A r \in users :
       \/ r \in users'
       \/ /\ last'.op = "authenticate_user"
          /\ last'.ret = <<"True">>
          /\ \E s \in Sessions, p \in Passwords :
                student_login(s, r.username, p, "ok")
          /\ \E x \in users' :
                /\ x = [r EXCEPT !.last_login = x.last_login]
                /\ x.last_login = <<now>>]_vars

C21_Witness ==
  /\ last.op = "checkout_guest"
  /\ Cardinality(users) = 2
  /\ \E r \in users : r.last_login # NULL
  /\ \E r \in users : r.last_login = NULL
  /\ \E st \in stays_in_room : st.check_out_date # NULL

\* the sum of the counts of a chart
RECURSIVE SumCounts(_)
SumCounts(chart) ==
  IF chart = {} THEN 0
  ELSE LET e == CHOOSE x \in chart : TRUE
       IN e.count + SumCounts(chart \ {e})

\* C23: for each category and each rating value the distribution holds the
\* number of Feedback rows with that rating in the category, it has no line
\* for a rating no row holds, and its counts add up to the number of rows.
C23_RatingDistributionCounts ==
  [][last'.op = "get_rating_statistics" =>
     \A c \in RatingTypes :
       last'.out = c
       => /\ \A r \in Ratings :
               LET n == Cardinality({ f \in feedback : rating_of(f, c) = r })
               IN /\ n > 0 => [rating |-> r, count |-> n] \in last'.chart
                  /\ n = 0 => ~\E e \in last'.chart : e.rating = r
          /\ \A e \in last'.chart : e.rating \in Ratings
          /\ \A e1, e2 \in last'.chart : e1.rating = e2.rating => e1 = e2
          /\ SumCounts(last'.chart) = Cardinality(feedback)]_vars

C23_Witness ==
  /\ last.op = "get_rating_statistics"
  /\ last.out = "mess"
  /\ \E e \in last.chart : e.count = 2
  /\ \E e \in last.chart : e.count = 1

\* C29: when the Hostel Feedback page shows its listing and chart, the counts
\* of the chart add up to the number of rows of the listing.
C29_ChartMatchesListing ==
  [][last'.op = "hostel_feedback_viewer"
       /\ last'.out = "Hostel Feedback Analysis"
       => SumCounts(last'.chart) = Cardinality(last'.rows)]_vars

\* C25: when the checkout form of Guest Management, submitted for a guest and
\* the room of the guest's open Stay, shows "Guest checked out successfully!",
\* that Stay has a check-out date afterwards.
C25_CheckoutClosesTheStay ==
  [][last'.op = "checkout_guest" /\ last'.out = "Guest checked out successfully!" =>
     \A s \in Sessions, c \in current_stays, rm \in room, d \in DateInputs :
       guest_management_checkout(s, c[1].guest_id, c[3].room_number,
                                 rm.room_id, d, "ok")
       => \A st \in stays_in_room' :
            st.stay_id = c[2].stay_id => st.check_out_date # NULL]_vars

C28_RegisterRace ==
  [][\A s \in Sessions :
       Len(script_run[s]) = 3 /\ script_run'[s] = Idle
       => LET u == script_run[s][2]
              rows == { r \in users' : r.username = u }
          IN /\ Cardinality(rows) = 1
             /\ Cardinality({ g \in guest' : \E r \in rows : g.user_id = r.id }) = 1
             /\ Len(last'.ret) = 2
             /\ ~HasUser(u) => last'.ret[1] = "True"
             /\ HasUser(u) => /\ last'.ret[1] = "False"
                              /\ users' = users
                              /\ guest' = guest]_vars

====
